---- MODULE Spec2Model ----
(***************************************************************************)
(* Fafali Attendance Manager (src/app.py): the CSV tables, the Streamlit   *)
(* sessions that run the page functions against them, the attendance       *)
(* reconciliation done by page_attendance, user creation, and the steps    *)
(* of atomic_save_csv on one file.  In the page actions a call of          *)
(* atomic_save_csv either replaces the file or raises and leaves it as it  *)
(* was; SpecSave looks inside the call.                                    *)
(*                                                                         *)
(* Strings the code takes apart (program lists, program names, kid names,  *)
(* the search box) are sequences of one-character strings; strings the     *)
(* code only compares (ids, usernames, passwords, dates, notes) are TLA+   *)
(* strings.  A CSV table is the sequence of its rows.  Columns no modelled *)
(* operation reads (age, dob, gender, school, guardian, image, full_name)  *)
(* are left out of the rows.  Loading programs.csv turns the cells pandas   *)
(* reads as missing into "" (LoadPrograms); no other modelled table holds  *)
(* such a cell.                                                            *)
(*                                                                         *)
(* pageFiles holds the files of the older page scripts                     *)
(* (src/app_pages/2_Attendance.py, src/pages/2_Attendance.py), which keep  *)
(* their own kids and attendance tables with their own columns.            *)
(***************************************************************************)
EXTENDS Integers, Sequences, FiniteSets, TLC

VARIABLES
    users,           \* data/users.csv: rows [username, password, role, programs]
    kids,            \* data/kids.csv: rows [id, name, program, location]
    programs,        \* data/programs.csv: the program column
    att,             \* data/attendance.csv: rows [date, kid_id, present, note, program, marked_by, timestamp]
    user,            \* st.session_state.user of every browser session
    selected_kid,    \* st.session_state.selected_kid
    pending_delete,  \* st.session_state.pending_delete
    pc,              \* where the session's current script run stands
    loc,             \* the tables the current script run has loaded
    clock,           \* datetime.now(), in seconds
    nOps,            \* how many saves, deletions and imports were started
    lastWrite,       \* history: the last atomic_save_csv call on kids.csv or attendance.csv
    saved,           \* history: each session's last successful "Save attendance" submission
    ret,             \* what the last form submission or script run came to
    fs,              \* one CSV file on disk, the atomic_save_csv call writing it with its
                     \* temp file, and what a reader last read
    pageFiles        \* the CSV files of the page variants: kids.csv, attendance.csv and
                     \* users.csv of app_pages, data/kids.csv and data/attendance.csv of
                     \* pages, data/users.csv of pages and utils/auth.py

tables == <<users, kids, programs, att>>
session == <<user, selected_kid, pending_delete>>
history == <<nOps, lastWrite, saved>>
vars == <<users, kids, programs, att, user, selected_kid, pending_delete,
          pc, loc, clock, nOps, lastWrite, saved, ret, fs, pageFiles>>

(* ------------------------------ bounds -------------------------------- *)
MaxSaves == 2       \* "Save attendance" submissions in one behaviour
MaxDeletes == 1     \* "Delete" clicks in one behaviour
MaxImports == 1     \* confirmed Excel imports in one behaviour
MaxClock == 2       \* ticks of datetime.now(); every submission reads a later time
MaxCreates == 2     \* "Create user" submissions in one behaviour
MaxAdds == 3        \* "Add program" submissions in one behaviour
MaxChanges == 3     \* submissions answered in ret before "Change password" stops
MaxRows == 4        \* rows an attendance file of a page variant holds before a submission
MaxKidAdds == 2     \* add-kid submissions of the page variants in one behaviour
MaxUserAdds == 3    \* add-user submissions of the page variants in one behaviour
MaxAuthChanges == 3 \* calls of utils/auth.change_password in one behaviour

Sessions == {"s1", "s2"}
Dates == {"d1", "d2"}
\* what the form may hold for one kid: (checkbox, note)
Marks == {<<TRUE, "">>, <<FALSE, "late">>}

(* ------------------------------ strings ------------------------------- *)
\* the characters of the model in code-point order
Alphabet == <<" ", ",", "A", "E", "K", "N", "X", "Y", "a", "e", "f", "i", "k", "m", "n", "o", "s", "x", "y">>

Ord(c) == CHOOSE i \in 1..Len(Alphabet) : Alphabet[i] = c

\* str.lower() on one character
LowerChar(c) ==
    CASE c = "A" -> "a" [] c = "E" -> "e" [] c = "K" -> "k" [] c = "N" -> "n"
      [] c = "X" -> "x" [] c = "Y" -> "y" [] OTHER -> c

LowerStr(s) == [i \in 1..Len(s) |-> LowerChar(s[i])]

\* str.strip(): drop leading and trailing blanks
RECURSIVE LStrip(_)
LStrip(s) == IF s # <<>> /\ Head(s) = " " THEN LStrip(Tail(s)) ELSE s

RECURSIVE RStrip(_)
RStrip(s) == IF s # <<>> /\ s[Len(s)] = " " THEN RStrip(SubSeq(s, 1, Len(s) - 1)) ELSE s

StripStr(s) == RStrip(LStrip(s))

\* str.split(","): the pieces between commas, empty pieces included
RECURSIVE SplitFrom(_, _, _)
SplitFrom(s, i, cur) ==
    IF i > Len(s) THEN <<cur>>
    ELSE IF s[i] = "," THEN <<cur>> \o SplitFrom(s, i + 1, <<>>)
    ELSE SplitFrom(s, i + 1, Append(cur, s[i]))

SplitComma(s) == SplitFrom(s, 1, <<>>)

\* lexicographic order of two strings by code point
RECURSIVE StrLess(_, _)
StrLess(a, b) ==
    IF b = <<>> THEN FALSE
    ELSE IF a = <<>> THEN TRUE
    ELSE IF Ord(Head(a)) < Ord(Head(b)) THEN TRUE
    ELSE IF Ord(Head(a)) > Ord(Head(b)) THEN FALSE
    ELSE StrLess(Tail(a), Tail(b))

\* s contains sub as a contiguous substring
Contains(s, sub) ==
    \E i \in 1..(Len(s) - Len(sub) + 1) : SubSeq(s, i, i + Len(sub) - 1) = sub

(* --------------------------- table helpers ---------------------------- *)
Range(f) == {f[i] : i \in DOMAIN f}

\* first occurrence of every element, in order (dict insertion order)
RECURSIVE Dedup(_)
Dedup(s) ==
    IF s = <<>> THEN <<>>
    ELSE LET r == Dedup(SubSeq(s, 1, Len(s) - 1))
         IN  IF s[Len(s)] \in Range(r) THEN r ELSE Append(r, s[Len(s)])

\* DataFrame.sort_values("name"): rows in ascending name order, ties in table order
RECURSIVE InsertByName(_, _)
InsertByName(sorted, r) ==
    IF sorted = <<>> THEN <<r>>
    ELSE IF StrLess(r.name, Head(sorted).name) THEN <<r>> \o sorted
    ELSE <<Head(sorted)>> \o InsertByName(Tail(sorted), r)

RECURSIVE SortByName(_)
SortByName(rows) ==
    IF rows = <<>> THEN <<>>
    ELSE InsertByName(SortByName(SubSeq(rows, 1, Len(rows) - 1)), rows[Len(rows)])

(* ------------------------------- values ------------------------------- *)
ProgX == <<"X">>
ProgY == <<"Y">>
LocA == <<"A">>

\* the kids table the behaviours start from: P1 and P2 in program X, P3 in program Y
InitKids ==
    << [id |-> "P1", name |-> <<"A", "m", "a">>, program |-> ProgX, location |-> LocA],
       [id |-> "P2", name |-> <<"E", "s", "i">>, program |-> ProgX, location |-> <<>>],
       [id |-> "P3", name |-> <<"K", "o", "f", "i">>, program |-> ProgY, location |-> LocA] >>

\* the user table the behaviours start from: the admin, a leader of X and a
\* leader with no program
InitUsers ==
    << [username |-> "admin", password |-> "123", role |-> "admin", programs |-> <<>>],
       [username |-> "leader1", password |-> "123", role |-> "leader", programs |-> ProgX],
       [username |-> "leader0", password |-> "123", role |-> "leader", programs |-> <<>>] >>

\* st.session_state values standing for None
NoUser == [username |-> "", role |-> "", programs |-> <<>>]
NoPending == [type |-> "", id |-> "", name |-> <<>>]
NoKid == ""
NoLoc == [kids |-> <<>>, att |-> <<>>, scope |-> <<>>, choice |-> <<>>, progs |-> <<>>,
          users |-> <<>>, mapped |-> <<>>]
NoChoice == <<>>        \* the "-- All --" / "-- Select --" entry of a selectbox
NoWrite == [kind |-> "none", sess |-> "", by |-> NoUser, ok |-> FALSE,
            fresh |-> FALSE, repeat |-> FALSE, remark |-> FALSE, gone |-> {}]
NoSave == [by |-> NoUser, date |-> "", choice |-> NoChoice, ids |-> {}, marks |-> {},
           rows |-> {}]
NoRet == [op |-> "none", n |-> 0, name |-> "", arg |-> <<>>, ok |-> FALSE, msg |-> ""]
NoFile == [exists |-> FALSE, lines |-> <<>>]
\* the file, no call under way and nothing read
NoCall == [target |-> <<>>, tmp |-> NoFile, pc |-> "idle", df |-> <<>>, before |-> <<>>,
           raised |-> FALSE, done |-> "none", seen |-> <<"nothing">>]

(* -------------------------------- auth -------------------------------- *)
\* str.lower() of a role string
LowerRole(r) ==
    CASE r = "Admin" -> "admin" [] r = "Leader" -> "leader" [] OTHER -> r

\* text_input(...).strip() of a typed username
StripName(u) ==
    CASE u = "leader1 " -> "leader1" [] u = " admin" -> "admin"
      [] u = " bob" -> "bob" [] u = " " -> "" [] OTHER -> u

check_password(entered, stored) == entered = stored

\* key in series: pandas tests the labels of the index (0..n-1), not the values
SeriesHas(series, key) ==
    <<"str", key>> \in {<<"int", i - 1>> : i \in 1..Len(series)}

\* [p.strip() for p in progs_raw.split(",") if p.strip()]
ParsePrograms(raw) ==
    LET pieces == SplitComma(raw)
        stripped == [i \in 1..Len(pieces) |-> StripStr(pieces[i])]
        NonEmpty(q) == q # <<>>
    IN  SelectSeq(stripped, NonEmpty)

attempt_login(usersT, username, password, chosen_role) ==
    LET Named(r) == r.username = username
        row == SelectSeq(usersT, Named)
    IN  IF usersT = <<>> THEN NoUser
        ELSE IF row = <<>> THEN NoUser
        ELSE IF LowerRole(row[1].role) # LowerRole(chosen_role) THEN NoUser
        ELSE IF ~check_password(password, row[1].password) THEN NoUser
        ELSE [username |-> row[1].username, role |-> row[1].role,
              programs |-> ParsePrograms(row[1].programs)]

IsAdmin(u) == LowerRole(u.role) = "admin"

(* ------------------------------- routing ------------------------------ *)
AdminTabs == <<"Dashboard", "Kids", "Attendance", "Programs", "Profiles", "Import",
               "Export", "Admin Tools", "Account", "Logout">>

LeaderTabs == <<"Kids", "Attendance", "Profiles", "Account", "Logout">>

\* variant: every signed-in user gets the admin's tab list
Tabs_AdminForAll(u) == AdminTabs

\* the tab list built for the signed-in user
Tabs(u) == IF IsAdmin(u) THEN AdminTabs ELSE LeaderTabs

\* no tab of the list answered as selected
NoTab == ""

\* selected_tab: which of the user's tabs answers as selected is for the
\* Streamlit run time to say; any tab of the list, or none
SelectedTabs(u) == Range(Tabs(u)) \cup {NoTab}

\* the if/elif chain from selected_tab to the page function it calls
PageOf(tab) ==
    CASE tab = "Dashboard" -> "page_dashboard"
      [] tab = "Kids" -> "page_kids"
      [] tab = "Attendance" -> "page_attendance"
      [] tab = "Programs" -> "page_programs"
      [] tab = "Profiles" -> "page_profiles"
      [] tab = "Import" -> "page_kids"
      [] tab = "Export" -> "page_export"
      [] tab = "Admin Tools" -> "page_admin_tools"
      [] tab = "Account" -> "Account"
      [] tab = "Logout" -> "Logout"
      [] OTHER -> "none"

\* page_admin_tools: what a user who is no admin is told
page_admin_tools(u) == IF ~IsAdmin(u) THEN "Admin only." ELSE ""

\* what one script run renders for a session user and a selected tab
Rendered(u, tab) ==
    IF u = NoUser
    THEN [tab |-> NoTab, page |-> "page_login", msg |-> ""]
    ELSE [tab |-> tab, page |-> PageOf(tab),
          msg |-> IF PageOf(tab) = "page_admin_tools" THEN page_admin_tools(u) ELSE ""]

(* ------------------------------- pages -------------------------------- *)
Ids(rows) == [i \in 1..Len(rows) |-> rows[i].id]

\* users["username"]
Usernames(usersT) == [i \in 1..Len(usersT) |-> usersT[i].username]

\* df["Student ID"] and df["Project"] of an uploaded sheet
SheetIds(sheet) == [i \in 1..Len(sheet) |-> sheet[i].sid]
SheetPrograms(sheet) == [i \in 1..Len(sheet) |-> sheet[i].program]

\* variant: page_kids without the early return
KidsPageBlocked_Never(u) == FALSE

\* page_kids returns early for a leader without programs
KidsPageBlocked(u) == ~IsAdmin(u) /\ u.programs = <<>>

\* cells pd.read_csv takes for missing values, which fillna("") turns into ""
NaValues == {<<"N", "A">>, <<"N", "a", "N">>, <<"n", "a", "n">>}

ReadCell(c) == IF c \in NaValues THEN <<>> ELSE c

\* load_csv(PROGRAMS_CSV).get("program", []) of a file holding progsT
LoadPrograms(progsT) == [i \in 1..Len(progsT) |-> ReadCell(progsT[i])]

\* the program selectbox of page_kids
KidsProgChoices(progsT, u) ==
    IF IsAdmin(u)
    THEN {NoChoice} \cup {q \in Range(LoadPrograms(progsT)) : StripStr(q) # <<>>}
    ELSE {NoChoice} \cup Range(u.programs)

\* the location selectbox of page_kids; "-- All --" and "" both mean no filter
KidsLocChoices(kidsT) ==
    {NoChoice} \cup {StripStr(k.location) : k \in Range(kidsT)}

Searches == {<<>>, <<"a">>, <<"K">>}

\* view: the rows page_kids lists
KidsView(kidsT, u, chosen_prog, chosen_loc, search) ==
    LET Allowed(k) == IsAdmin(u) \/ k.program \in Range(u.programs)
        InProg(k) == chosen_prog = NoChoice \/ k.program = chosen_prog
        InLoc(k) == chosen_loc = NoChoice \/ k.location = chosen_loc
        Found(k) == search = <<>> \/ Contains(LowerStr(k.name), LowerStr(search))
        Shown(k) == Allowed(k) /\ InProg(k) /\ InLoc(k) /\ Found(k)
    IN  SortByName(SelectSeq(kidsT, Shown))

\* what page_kids puts on screen
KidsPage(kidsT, u, chosen_prog, chosen_loc, search) ==
    IF KidsPageBlocked(u)
    THEN [msg |-> "No programs assigned. Contact admin.", ids |-> <<>>]
    ELSE LET view == KidsView(kidsT, u, chosen_prog, chosen_loc, search)
         IN  IF view = <<>> THEN [msg |-> "No kids match filters.", ids |-> <<>>]
             ELSE [msg |-> "", ids |-> Ids(view)]

\* the program selectbox of page_attendance
AttChoices(kidsT, u) ==
    IF IsAdmin(u)
    THEN {NoChoice} \cup {StripStr(k.program) : k \in {r \in Range(kidsT) : StripStr(r.program) # <<>>}}
    ELSE {NoChoice} \cup Range(u.programs)

\* scope: the kids the attendance form lists
AttScope(kidsT, u, prog_scope) ==
    LET InProg(k) == k.program = prog_scope
        Mine(k) == k.program \in Range(u.programs)
    IN  IF prog_scope # NoChoice THEN SelectSeq(kidsT, InProg)
        ELSE IF IsAdmin(u) THEN kidsT
        ELSE SelectSeq(kidsT, Mine)

\* what page_attendance puts on screen before the form is submitted
AttendancePage(kidsT, u, prog_scope) ==
    IF kidsT = <<>> THEN [msg |-> "No kids in database.", ids |-> <<>>]
    ELSE IF ~IsAdmin(u) /\ u.programs = <<>>
    THEN [msg |-> "No programs assigned.", ids |-> <<>>]
    ELSE LET scope == AttScope(kidsT, u, prog_scope)
         IN  IF scope = <<>> THEN [msg |-> "No kids in scope.", ids |-> <<>>]
             ELSE [msg |-> "", ids |-> Ids(SortByName(scope))]

\* what page_profiles puts on screen
ProfilePage(kidsT, u, sel) ==
    LET Is(k) == k.id = sel
        found == SelectSeq(kidsT, Is)
    IN  IF sel = NoKid
        THEN [msg |-> "Open a kid from the Kids page to view profile.", ids |-> <<>>]
        ELSE IF ~SeriesHas(Ids(kidsT), sel)
        THEN [msg |-> "Kid not found.", ids |-> <<>>]
        ELSE IF ~IsAdmin(u) /\ found[1].program \notin Range(u.programs)
        THEN [msg |-> "Access denied.", ids |-> <<>>]
        ELSE [msg |-> "", ids |-> <<found[1].id>>]

(* ----------------------------- attendance ----------------------------- *)
\* variant: nothing is removed before the new rows are appended
KeepOnSave_KeepAll(attT, d, ids) == attT

\* variant: the filter keeps the rows of the date that belong to the marked kids
KeepOnSave_Inverted(attT, d, ids) ==
    LET Kept(r) == r.date # d \/ r.kid_id \in ids
    IN  SelectSeq(attT, Kept)

\* new_att = att[att["date"] != att_str]
KeepOnSave(attT, d, ids) ==
    LET OtherDate(r) == r.date # d
    IN  SelectSeq(attT, OtherDate)

\* kids[kids["id"] == kid_id]["program"].values[0]
KidProgram(kidsT, kid_id) ==
    LET Is(k) == k.id = kid_id
    IN  SelectSeq(kidsT, Is)[1].program

\* variant: only the checked kids get a row
MarkRows_CheckedOnly(kidsT, ids, d, mark, username, now) ==
    LET Checked(k) == mark[k][1]
        marked == SelectSeq(ids, Checked)
    IN  [i \in 1..Len(marked) |->
            [date |-> d, kid_id |-> marked[i], present |-> "1",
             note |-> mark[marked[i]][2],
             program |-> KidProgram(kidsT, marked[i]),
             marked_by |-> username, timestamp |-> now]]

\* the rows the save loop appends, one per key of checked
MarkRows(kidsT, ids, d, mark, username, now) ==
    [i \in 1..Len(ids) |->
        [date |-> d, kid_id |-> ids[i],
         present |-> IF mark[ids[i]][1] THEN "1" ELSE "0",
         note |-> mark[ids[i]][2],
         program |-> KidProgram(kidsT, ids[i]),
         marked_by |-> username, timestamp |-> now]]

\* variant: a kid already recorded for the date keeps its record
NewAtt_Merge(attT, kidsT, scope, d, mark, username, now) ==
    LET ids == Dedup(Ids(SortByName(scope)))
        Unmarked(k) == \A r \in Range(attT) : ~(r.date = d /\ r.kid_id = k)
    IN  attT \o MarkRows(kidsT, SelectSeq(ids, Unmarked), d, mark, username, now)

\* the table "Save attendance" writes
NewAtt(attT, kidsT, scope, d, mark, username, now) ==
    LET ids == Dedup(Ids(SortByName(scope)))
    IN  KeepOnSave(attT, d, Range(ids)) \o MarkRows(kidsT, ids, d, mark, username, now)

\* variant: the filter drops every row
DropKid_All(kidsT, id) == <<>>

\* dfk[dfk["id"] != pdv.get("id")]
DropKid(kidsT, id) ==
    LET Other(k) == k.id # id
    IN  SelectSeq(kidsT, Other)

\* variant: the attendance records of the deleted kid stay
DropRecords_None(attT, id) == attT

\* att[att["kid_id"] != pdv.get("id")]
DropRecords(attT, id) ==
    LET Other(r) == r.kid_id # id
    IN  SelectSeq(attT, Other)

\* a record without its timestamp
Proj(r) == [date |-> r.date, kid_id |-> r.kid_id, present |-> r.present,
            note |-> r.note, program |-> r.program, marked_by |-> r.marked_by]

ProjSeq(attT) == [i \in 1..Len(attT) |-> Proj(attT[i])]

(* ------------------------------- import ------------------------------- *)
\* f"K{str(gen_counter).zfill(4)}"
GenIdTable == <<"K0001", "K0002", "K0003", "K0004">>

GenId(n) == GenIdTable[n]

RECURSIVE FreeCounter(_, _)
FreeCounter(n, existing_ids) ==
    IF GenId(n) \in existing_ids THEN FreeCounter(n + 1, existing_ids) ELSE n

\* the id column of mapped: blank Student IDs are replaced by generated ids
RECURSIVE GenIds(_, _, _)
GenIds(vals, gen_counter, existing_ids) ==
    IF vals = <<>> THEN <<>>
    ELSE IF Head(vals) = ""
         THEN LET n == FreeCounter(gen_counter, existing_ids)
              IN  <<GenId(n)>> \o GenIds(Tail(vals), n + 1, existing_ids \cup {GenId(n)})
         ELSE <<Head(vals)>> \o GenIds(Tail(vals), gen_counter, existing_ids)

\* mapped: the uploaded sheet as kids rows
Mapped(sheet, kidsT) ==
    LET gen_ids == GenIds(SheetIds(sheet), 1, Range(Ids(kidsT)))
    IN  [i \in 1..Len(sheet) |->
            [id |-> gen_ids[i],
             name |-> StripStr(sheet[i].first) \o <<" ">> \o StripStr(sheet[i].last),
             program |-> sheet[i].program, location |-> sheet[i].location]]

\* mapped, each row with whether its Student ID cell was blank
Marked(sheet, kidsT) ==
    LET mapped == Mapped(sheet, kidsT)
    IN  [i \in 1..Len(sheet) |-> [blank |-> sheet[i].sid = "", row |-> mapped[i]]]

\* DataFrame.drop_duplicates(keep="first"); keys[i] is the subset key of rows[i]
RECURSIVE KeepFirst(_, _, _)
KeepFirst(rows, keys, i) ==
    IF i > Len(rows) THEN <<>>
    ELSE IF \E j \in 1..(i - 1) : keys[j] = keys[i]
         THEN KeepFirst(rows, keys, i + 1)
         ELSE <<rows[i]>> \o KeepFirst(rows, keys, i + 1)

\* drop_duplicates(subset=["id"], keep="first")
DropDuplicateIds(rows) == KeepFirst(rows, Ids(rows), 1)

\* drop_duplicates(subset=["name","program"], keep="first")
DropDuplicateNames(rows) ==
    KeepFirst(rows, [i \in 1..Len(rows) |-> <<rows[i].name, rows[i].program>>], 1)

\* combined: what "Confirm import" writes to kids.csv
Combined(kidsT, sheet) ==
    DropDuplicateNames(DropDuplicateIds(kidsT \o Mapped(sheet, kidsT)))

\* add_program_if_missing: the column programs.csv holds after the call
add_program_if_missing(progsT, name) ==
    LET stripped == StripStr(name)
        progs == LoadPrograms(progsT)
        existing == {LowerStr(StripStr(q)) : q \in Range(progs)}
    IN  IF stripped = <<>> THEN progsT
        ELSE IF LowerStr(stripped) \notin existing THEN Append(progs, stripped)
        ELSE progsT

RECURSIVE AddPrograms(_, _)
AddPrograms(progsT, names) ==
    IF names = <<>> THEN progsT
    ELSE AddPrograms(
            IF StripStr(Head(names)) # <<>> THEN add_program_if_missing(progsT, Head(names))
            ELSE progsT,
            Tail(names))

\* the uploads the model tries: a row that reuses id P1 in program Y, and a
\* sheet for a program not yet registered with a row that brings the id
\* K0002 along before a row with a blank Student ID
Sheets ==
    { << [sid |-> "P1", first |-> <<"A", "m", "a">>, last |-> <<>>,
          program |-> ProgY, location |-> LocA] >>,
      << [sid |-> "K0002", first |-> <<"A", "m", "a">>, last |-> <<"K">>,
          program |-> <<"E">>, location |-> <<>>],
         [sid |-> "", first |-> <<"E", "s", "i">>, last |-> <<"K">>,
          program |-> <<"E">>, location |-> <<>>] >> }

(* ------------------------------- users -------------------------------- *)
\* create_user up to its save: the answer and the table it would write
create_user(usersT, username, password, role, progs_raw) ==
    LET row == [username |-> username, password |-> password, role |-> role,
                programs |-> progs_raw]
    IN  IF SeriesHas(Usernames(usersT), username)
        THEN [ok |-> FALSE, msg |-> "Username exists", users |-> usersT]
        ELSE [ok |-> TRUE, msg |-> "User created", users |-> Append(usersT, row)]

\* what the "Create user" form of page_admin_tools may hold
CreateNames == {"admin", "leader1 ", "new", ""}
CreatePasswords == {"pw", ""}
Assignments == {<<>>, <<"x">>, <<"X", ",", " ", "E">>}

(* --------------------------- page variants ---------------------------- *)
\* kids.csv as app_pages/1_Kids.py writes it: rows [Name, Program, Leader]
AppPagesKids ==
    << [Name |-> "Ama", Program |-> "Teens", Leader |-> "leader1"],
       [Name |-> "Kofi", Program |-> "Teens", Leader |-> "leader1"],
       [Name |-> "Esi", Program |-> "Youth", Leader |-> "admin"] >>

\* data/kids.csv as pages/1_Kids.py writes it: rows [Name, Program]
PagesKids ==
    << [Name |-> "Ama", Program |-> "X"],
       [Name |-> "Kofi", Program |-> "Y"] >>

\* users.csv of app_pages/4_Admin.py and data/users.csv of pages/4_Admin.py and
\* utils/auth.py do not exist yet: no rows
InitPageFiles ==
    [app_kids |-> AppPagesKids, app_att |-> <<>>, pages_kids |-> PagesKids, pages_att |-> <<>>,
     app_users |-> <<>>, data_users |-> <<>>]

\* strftime("%Y-%m-%d") of the day: the days of Dates in calendar order
DayNo(d) == IF d = "d1" THEN 1 ELSE 2

\* the days today can be when a file already holds records: no earlier day
Todays(attT) == {d \in Dates : \A r \in Range(attT) : DayNo(r.Date) <= DayNo(d)}

\* app_pages attendance_page: the kids the page lists
AppPagesListed(kidsT, u) ==
    LET Mine(k) == k.Leader = u.username
    IN  IF LowerRole(u.role) = "leader" THEN SelectSeq(kidsT, Mine) ELSE kidsT

\* app_pages attendance_page: one record per listed kid, appended
AppPagesRecords(attendance, listed, today, present_kids, username) ==
    attendance \o [i \in 1..Len(listed) |->
                      [Date |-> today, Kid |-> listed[i].Name,
                       Present |-> listed[i].Name \in present_kids,
                       MarkedBy |-> username]]

\* pages save_attendance: the rows are appended to what the file holds
save_attendance(existing, att_df) == existing \o att_df

\* pages run: attendance_data, one row per kid with its checkbox
AttendanceData(kids_df, today, present) ==
    [i \in 1..Len(kids_df) |->
        [Date |-> today, Kid |-> kids_df[i].Name, Program |-> kids_df[i].Program,
         Present |-> kids_df[i].Name \in present]]

\* what the add-kid forms of the page variants may hold
KidNames == {"Yaa", " Yaa ", " "}
AppPagesPrograms == {"Teens", "Youth"}
PagesPrograms == {"X", "E"}
AllFilter == "-- All --"

\* kid_name.strip() of a typed name
StripKidName(n) ==
    CASE n = " Yaa " -> "Yaa" [] n = " " -> "" [] OTHER -> n

\* app_pages/1_Kids.py run: kids after the role filter
AppPagesKidsShown(kidsT, u) ==
    LET Mine(k) == k.Leader = u.username
    IN  IF LowerRole(u.role) = "leader" THEN SelectSeq(kidsT, Mine) ELSE kidsT

\* app_pages/1_Kids.py run, "Add Kid": the answer and what save_kids writes
AppPagesAdd(kidsT, u, kid_name, program) ==
    LET kids_df == AppPagesKidsShown(kidsT, u)
        new_kid == [Name |-> StripKidName(kid_name), Program |-> program,
                    Leader |-> u.username]
    IN  IF StripKidName(kid_name) # "" /\ program # ""
        THEN [ok |-> TRUE, msg |-> "added successfully!", kids |-> Append(kids_df, new_kid)]
        ELSE [ok |-> FALSE, msg |-> "Please provide both name and program.", kids |-> kidsT]

\* pages/1_Kids.py page_kids: the entries of "Filter by Program"
PagesFilters(kidsT, u) ==
    LET Mine(k) == k.Program = ""
        kids_df == IF u.role = "leader" THEN SelectSeq(kidsT, Mine) ELSE kidsT
    IN  {AllFilter} \cup {kids_df[i].Program : i \in 1..Len(kids_df)}

\* pages/1_Kids.py page_kids: kids_df after the role and the program filter;
\* the session user has no "program", so a leader's filter value is ""
PagesKidsShown(kidsT, u, prog_filter) ==
    LET Mine(k) == k.Program = ""
        Chosen(k) == k.Program = prog_filter
        kids_df == IF u.role = "leader" THEN SelectSeq(kidsT, Mine) ELSE kidsT
    IN  IF prog_filter # AllFilter THEN SelectSeq(kids_df, Chosen) ELSE kids_df

\* pages/1_Kids.py page_kids, "Add Kid": the frame save_kids writes
PagesAdd(kidsT, u, prog_filter, name, program) ==
    Append(PagesKidsShown(kidsT, u, prog_filter), [Name |-> name, Program |-> program])

\* cell texts pd.read_csv takes for missing values; the empty cell is one too
NaTexts == {"NA", "NaN", "nan"}

\* the value a frame holds for a missing cell
NaN == "<NaN>"

\* pd.read_csv(path) of one text cell
ReadText(c) == IF c \in NaTexts \cup {""} THEN NaN ELSE c

\* df.to_csv(path, index=False) of one value: a missing value is written empty
WriteText(v) == IF v = NaN THEN "" ELSE v

\* what the add-user form of app_pages/4_Admin.py may hold
AddUsernames == {"bob", " bob", "NA", ""}
FullNames == {"Bob", " "}
AppPagesRoles == {"Leader", "Admin"}

\* app_pages/4_Admin.py load_users: the frame read from users.csv
AppPagesLoadUsers(usersT) ==
    [i \in 1..Len(usersT) |->
        [Username |-> ReadText(usersT[i].Username), FullName |-> ReadText(usersT[i].FullName),
         Role |-> ReadText(usersT[i].Role), Program |-> ReadText(usersT[i].Program)]]

\* app_pages/4_Admin.py save_users: the rows users.csv holds afterwards
AppPagesSaveUsers(df) ==
    [i \in 1..Len(df) |->
        [Username |-> WriteText(df[i].Username), FullName |-> WriteText(df[i].FullName),
         Role |-> WriteText(df[i].Role), Program |-> WriteText(df[i].Program)]]

\* the Username of the row "Add User" appends
AppPagesNewUsername(username) == StripName(username)

\* app_pages/4_Admin.py run, "Add User": the answer and the rows of users.csv
AppPagesAddUserRun(usersT, username, full_name, role, program) ==
    LET users_df == AppPagesLoadUsers(usersT)
        values == {users_df[i].Username : i \in 1..Len(users_df)}
        new_user == [Username |-> AppPagesNewUsername(username),
                     FullName |-> StripName(full_name), Role |-> role, Program |-> program]
    IN  IF StripName(username) = "" \/ StripName(full_name) = ""
        THEN [ok |-> FALSE, msg |-> "Please provide all details.", users |-> usersT]
        ELSE IF username \in values
        THEN [ok |-> FALSE, msg |-> "Username already exists.", users |-> usersT]
        ELSE [ok |-> TRUE, msg |-> "added successfully!",
              users |-> AppPagesSaveUsers(Append(users_df, new_user))]

\* what the "Add New User" fields of pages/4_Admin.py may hold
PagesUsernames == {"bob", ""}
PagesPasswords == {"pw", ""}
PagesRoles == {"admin", "leader"}
PagesUserPrograms == {"", " ", "X", "NA"}

\* pages/4_Admin.py load_csv(USERS_CSV, ...): the frame read from data/users.csv
PagesLoadUsers(usersT) ==
    [i \in 1..Len(usersT) |->
        [username |-> ReadText(usersT[i].username), password |-> ReadText(usersT[i].password),
         role |-> ReadText(usersT[i].role), program |-> ReadText(usersT[i].program)]]

\* pages/4_Admin.py save_csv(USERS_CSV, df): the rows data/users.csv holds afterwards
PagesSaveUsers(df) ==
    [i \in 1..Len(df) |->
        [username |-> WriteText(df[i].username), password |-> WriteText(df[i].password),
         role |-> WriteText(df[i].role), program |-> WriteText(df[i].program)]]

\* pages/4_Admin.py run, "Add User": the answer and the rows of data/users.csv
PagesAddUserRun(usersT, username, password, role, program) ==
    LET users_df == PagesLoadUsers(usersT)
        new_user == [username |-> username, password |-> password, role |-> role,
                     program |-> IF role = "leader" THEN program ELSE ""]
    IN  IF username # "" /\ password # "" /\ role # ""
        THEN IF role = "leader" /\ program = ""
             THEN [ok |-> FALSE, msg |-> "Leaders must have a program assigned.",
                   users |-> usersT]
             ELSE [ok |-> TRUE, msg |-> "added.",
                   users |-> PagesSaveUsers(Append(users_df, new_user))]
        ELSE [ok |-> FALSE, msg |-> "Please fill all required fields.", users |-> usersT]

\* utils/auth.py load_users: the rows written when data/users.csv is missing
DefaultUsers ==
    << [username |-> "admin", password |-> "123", role |-> "admin", program |-> "",
        full_name |-> "Administrator"],
       [username |-> "leader1", password |-> "123", role |-> "leader",
        program |-> "Football Boys", full_name |-> "Leader One"] >>

\* data/users.csv as utils/auth.py can find it: missing, or as "Add User" of
\* pages/4_Admin.py left it after two users named bob were added
AuthFiles ==
    { <<>>,
      PagesAddUserRun(PagesAddUserRun(<<>>, "bob", "pw", "leader", "X").users,
                      "bob", "123", "admin", "").users }

\* pd.read_csv(USERS_CSV, dtype=str).fillna("") of one text cell
ReadStr(c) == IF c \in NaTexts THEN "" ELSE c

\* utils/auth.py load_users: data/users.csv once the default rows are in place
AuthStored(usersT) == IF usersT = <<>> THEN DefaultUsers ELSE usersT

\* utils/auth.py load_users: the records returned
AuthLoadUsers(usersT) ==
    LET stored == AuthStored(usersT)
    IN  [i \in 1..Len(stored) |-> [f \in DOMAIN stored[i] |-> ReadStr(stored[i][f])]]

\* the loop of change_password: the first record with the username gets the
\* new password
AuthSetPassword(records, username, new_password) ==
    [i \in 1..Len(records) |->
        IF /\ records[i].username = username
           /\ \A j \in 1..(i - 1) : records[j].username # username
        THEN [records[i] EXCEPT !.password = new_password] ELSE records[i]]

\* utils/auth.py change_password: what it returns and the rows of data/users.csv
change_password(usersT, username, new_password) ==
    LET records == AuthLoadUsers(usersT)
        changed == \E i \in 1..Len(records) : records[i].username = username
    IN  [changed |-> changed,
         users |-> IF changed THEN AuthSetPassword(records, username, new_password)
                   ELSE AuthStored(usersT)]

\* the arguments change_password is called with
AuthUsernames == {"admin", "leader1", "bob", "nobody"}
AuthPasswords == {"pw", "NA", "123"}

(* --------------------------- files on disk ---------------------------- *)
\* the CSV texts the model writes, as lines
FileTables == {<<"header">>, <<"header", "a">>, <<"header", "b", "a">>}

\* the first n lines of a text
Prefix(lines, n) == SubSeq(lines, 1, n)

(* ------------------------------ actions ------------------------------- *)
LoginNames == {"admin", "leader1", "leader1 ", "leader0", "new", "nobody"}
Passwords == {"123", "pw", "bad"}
Roles == {"admin", "leader"}

\* the files init_files_and_starter leaves behind
InitTables ==
    /\ users = InitUsers
    /\ kids = InitKids
    /\ programs = <<ProgX, ProgY>>
    /\ att = <<>>
    /\ fs = [NoCall EXCEPT !.target = <<"header">>, !.df = <<"header">>,
                           !.before = <<"header">>]
    /\ pageFiles = InitPageFiles

\* no script run is under way and nothing has been submitted
InitRuns ==
    /\ selected_kid = [s \in Sessions |-> NoKid]
    /\ pending_delete = [s \in Sessions |-> NoPending]
    /\ pc = [s \in Sessions |-> "idle"]
    /\ loc = [s \in Sessions |-> NoLoc]
    /\ clock = 0
    /\ nOps = [save |-> 0, del |-> 0, imp |-> 0]
    /\ lastWrite = NoWrite
    /\ saved = [s \in Sessions |-> NoSave]
    /\ ret = NoRet

Init ==
    /\ InitTables
    /\ InitRuns
    /\ user = [s \in Sessions |-> NoUser]

\* page_login: the form is submitted and attempt_login accepts it
Login(s) ==
    /\ pc[s] = "idle"
    /\ user[s] = NoUser
    /\ \E username \in LoginNames, password \in Passwords, role_choice \in Roles :
         LET u == attempt_login(users, StripName(username), password, role_choice)
         IN  /\ u # NoUser
             /\ user' = [user EXCEPT ![s] = u]
    /\ UNCHANGED <<pageFiles, ret, fs, tables, selected_kid, pending_delete, pc, loc, clock, history>>

\* the Logout tab: "Log out" is pressed
Logout(s) ==
    /\ pc[s] = "idle"
    /\ user[s] # NoUser
    /\ user' = [user EXCEPT ![s] = NoUser]
    /\ selected_kid' = [selected_kid EXCEPT ![s] = NoKid]
    /\ UNCHANGED <<pageFiles, ret, fs, tables, pending_delete, pc, loc, clock, history>>

\* one script run of app.py: the login page for a session without user,
\* else the page of the selected tab
OpenTab(s) ==
    /\ pc[s] = "idle"
    /\ \E tab \in SelectedTabs(user[s]) :
         LET r == Rendered(user[s], tab)
         IN  ret' = [op |-> "page", n |-> ret.n, name |-> "", arg |-> <<s, r.tab, r.page>>,
                     ok |-> TRUE, msg |-> r.msg]
    /\ UNCHANGED <<tables, session, pc, loc, clock, history, fs, pageFiles>>

\* page_kids: "View profile" or "Open profile (edit)" on a listed kid
ClickViewProfile(s) ==
    /\ pc[s] = "idle"
    /\ user[s] # NoUser
    /\ ~KidsPageBlocked(user[s])
    /\ \E chosen_prog \in KidsProgChoices(programs, user[s]),
          chosen_loc \in KidsLocChoices(kids), search \in Searches :
         \E r \in Range(KidsView(kids, user[s], chosen_prog, chosen_loc, search)) :
            selected_kid' = [selected_kid EXCEPT ![s] = r.id]
    /\ UNCHANGED <<pageFiles, ret, fs, tables, user, pending_delete, pc, loc, clock, history>>

\* page_kids: "Delete" on a listed kid, a button only an admin is shown
ClickDelete(s) ==
    /\ pc[s] = "idle"
    /\ user[s] # NoUser
    /\ ~KidsPageBlocked(user[s])
    /\ IsAdmin(user[s])
    /\ nOps.del < MaxDeletes
    /\ nOps' = [nOps EXCEPT !.del = @ + 1]
    /\ \E chosen_prog \in KidsProgChoices(programs, user[s]),
          chosen_loc \in KidsLocChoices(kids), search \in Searches :
         \E r \in Range(KidsView(kids, user[s], chosen_prog, chosen_loc, search)) :
            pending_delete' = [pending_delete EXCEPT ![s] =
                                  [type |-> "kid", id |-> r.id, name |-> r.name]]
    /\ UNCHANGED <<pageFiles, ret, fs, tables, user, selected_kid, pc, loc, clock, lastWrite, saved>>

\* page_kids reaches the confirmation block with a kid pending
ConfirmShown(s) ==
    /\ pc[s] = "idle"
    /\ user[s] # NoUser
    /\ ~KidsPageBlocked(user[s])
    /\ pending_delete[s] # NoPending
    /\ pending_delete[s].type = "kid"

\* "Cancel"
CancelDelete(s) ==
    /\ ConfirmShown(s)
    /\ pending_delete' = [pending_delete EXCEPT ![s] = NoPending]
    /\ UNCHANGED <<pageFiles, ret, fs, tables, user, selected_kid, pc, loc, clock, history>>

\* "Yes, delete": kids.csv is loaded
DeleteLoadKids(s) ==
    /\ ConfirmShown(s)
    /\ loc' = [loc EXCEPT ![s] = [NoLoc EXCEPT !.kids = kids]]
    /\ pc' = [pc EXCEPT ![s] = "del_kids"]
    /\ UNCHANGED <<pageFiles, ret, fs, tables, session, clock, history>>

\* dfk[dfk["id"] != id] is written to kids.csv
DeleteWriteKids(s) ==
    /\ pc[s] = "del_kids"
    /\ \E ok \in BOOLEAN :
         /\ kids' = IF ok THEN DropKid(loc[s].kids, pending_delete[s].id) ELSE kids
         /\ pc' = [pc EXCEPT ![s] = IF ok THEN "del_att" ELSE "idle"]
         /\ lastWrite' = [NoWrite EXCEPT !.kind = "del_kids", !.sess = s,
                                         !.by = user[s], !.ok = ok]
    /\ loc' = [loc EXCEPT ![s] = NoLoc]
    /\ UNCHANGED <<pageFiles, ret, fs, users, programs, att, session, clock, nOps, saved>>

\* attendance.csv is loaded
DeleteLoadAtt(s) ==
    /\ pc[s] = "del_att"
    /\ loc' = [loc EXCEPT ![s] = [NoLoc EXCEPT !.att = att]]
    /\ pc' = [pc EXCEPT ![s] = "del_att_w"]
    /\ UNCHANGED <<pageFiles, ret, fs, tables, session, clock, history>>

\* att[att["kid_id"] != id] is written to attendance.csv and the pending delete is cleared
DeleteWriteAtt(s) ==
    /\ pc[s] = "del_att_w"
    /\ \E ok \in BOOLEAN :
         /\ att' = IF ok THEN DropRecords(loc[s].att, pending_delete[s].id) ELSE att
         /\ pending_delete' = IF ok THEN [pending_delete EXCEPT ![s] = NoPending]
                              ELSE pending_delete
         /\ lastWrite' = [NoWrite EXCEPT !.kind = "del_att", !.sess = s,
                                         !.by = user[s], !.ok = ok]
    /\ pc' = [pc EXCEPT ![s] = "idle"]
    /\ loc' = [loc EXCEPT ![s] = NoLoc]
    /\ UNCHANGED <<pageFiles, ret, fs, users, kids, programs, user, selected_kid, clock, nOps, saved>>

\* "Confirm import": the upload is mapped and combined with the loaded kids.csv
ImportLoad(s) ==
    /\ pc[s] = "idle"
    /\ user[s] # NoUser
    /\ IsAdmin(user[s])
    /\ nOps.imp < MaxImports
    /\ nOps' = [nOps EXCEPT !.imp = @ + 1]
    /\ \E sheet \in Sheets :
         loc' = [loc EXCEPT ![s] = [NoLoc EXCEPT !.kids = Combined(kids, sheet),
                                                 !.progs = SheetPrograms(sheet),
                                                 !.mapped = Marked(sheet, kids)]]
    /\ pc' = [pc EXCEPT ![s] = "import_w"]
    /\ UNCHANGED <<pageFiles, ret, fs, tables, session, clock, lastWrite, saved>>

\* combined is written to kids.csv and the programs found are registered
ImportWrite(s) ==
    /\ pc[s] = "import_w"
    /\ \E ok \in BOOLEAN :
         /\ kids' = IF ok THEN loc[s].kids ELSE kids
         /\ programs' = IF ok THEN AddPrograms(programs, loc[s].progs) ELSE programs
         /\ lastWrite' = [NoWrite EXCEPT !.kind = "import", !.sess = s,
                                         !.by = user[s], !.ok = ok]
    /\ pc' = [pc EXCEPT ![s] = "idle"]
    /\ loc' = [loc EXCEPT ![s] = NoLoc]
    /\ UNCHANGED <<pageFiles, ret, fs, users, att, session, clock, nOps, saved>>

\* page_attendance up to the form: both tables are loaded and the scope is resolved
AttendanceOpen(s) ==
    /\ pc[s] = "idle"
    /\ user[s] # NoUser
    /\ \E prog_scope \in AttChoices(kids, user[s]) :
         /\ AttendancePage(kids, user[s], prog_scope).msg = ""
         /\ loc' = [loc EXCEPT ![s] = [NoLoc EXCEPT !.kids = kids, !.att = att,
                                           !.choice = prog_scope,
                                           !.scope = AttScope(kids, user[s], prog_scope)]]
    /\ pc' = [pc EXCEPT ![s] = "mark_att"]
    /\ UNCHANGED <<pageFiles, ret, fs, tables, session, clock, history>>

\* the run ends with the form on screen and nothing submitted
AttendanceShown(s) ==
    /\ pc[s] = "mark_att"
    /\ pc' = [pc EXCEPT ![s] = "idle"]
    /\ loc' = [loc EXCEPT ![s] = NoLoc]
    /\ UNCHANGED <<pageFiles, ret, fs, tables, session, clock, history>>

\* "Save attendance": the rows are built from the loaded tables and written
AttendanceSave(s) ==
    /\ pc[s] = "mark_att"
    /\ nOps.save < MaxSaves
    /\ nOps' = [nOps EXCEPT !.save = @ + 1]
    /\ \E d \in Dates, now \in {clock + 1}, ok \in BOOLEAN :
       \E mark \in [Range(Ids(loc[s].scope)) -> Marks] :
         LET ids == Range(Ids(loc[s].scope))
             new_att == NewAtt(loc[s].att, loc[s].kids, loc[s].scope, d,
                               mark, user[s].username, now)
             this == [by |-> user[s], date |-> d, choice |-> loc[s].choice, ids |-> ids,
                      marks |-> {<<k, mark[k][1], mark[k][2]>> : k \in ids},
                      rows |-> {r \in Range(new_att) : r.date = d /\ r.kid_id \in ids}]
             fresh == loc[s].att = att /\ loc[s].kids = kids
             again == /\ saved[s].by = this.by /\ saved[s].date = d
                      /\ saved[s].choice = this.choice
             same == again /\ saved[s].ids = ids /\ saved[s].marks = this.marks
         IN  /\ now <= MaxClock
             /\ clock' = now
             /\ att' = IF ok THEN new_att ELSE att
             /\ saved' = IF ok THEN [saved EXCEPT ![s] = this] ELSE saved
             /\ lastWrite' =
                  IF ok
                  THEN [kind |-> "save", sess |-> s, by |-> user[s], ok |-> TRUE,
                        fresh |-> fresh,
                        repeat |-> /\ fresh /\ same /\ lastWrite.kind = "save"
                                   /\ lastWrite.ok /\ lastWrite.sess = s,
                        remark |-> fresh /\ again /\ ~same,
                        gone |-> IF again THEN saved[s].ids \ ids ELSE {}]
                  ELSE [NoWrite EXCEPT !.kind = "save", !.sess = s, !.by = user[s]]
    /\ pc' = [pc EXCEPT ![s] = "idle"]
    /\ loc' = [loc EXCEPT ![s] = NoLoc]
    /\ UNCHANGED <<pageFiles, ret, fs, users, kids, programs, session>>

\* page_admin_tools: the "Create user" form is submitted
CreateUser(s) ==
    /\ pc[s] = "idle"
    /\ user[s] # NoUser
    /\ IsAdmin(user[s])
    /\ ret.n < MaxCreates
    /\ \E uname \in CreateNames, pwd \in CreatePasswords, role_choice \in Roles,
          prog_assign \in Assignments, ok \in BOOLEAN :
         LET r == create_user(users, StripName(uname), pwd, role_choice, prog_assign)
             answer == [op |-> "create_user", n |-> ret.n + 1, name |-> StripName(uname),
                        arg |-> <<>>,
                        ok |-> r.ok, msg |-> r.msg]
         IN  IF uname = "" \/ pwd = ""
             THEN /\ ret' = [answer EXCEPT !.op = "form", !.ok = FALSE,
                                           !.msg = "Provide username and password."]
                  /\ UNCHANGED <<users, programs>>
             ELSE IF ~r.ok
             THEN /\ ret' = answer
                  /\ UNCHANGED <<users, programs>>
             ELSE IF ~ok
             THEN /\ ret' = [answer EXCEPT !.ok = FALSE, !.msg = "OSError"]
                  /\ UNCHANGED <<users, programs>>
             ELSE /\ ret' = answer
                  /\ users' = r.users
                  /\ programs' = AddPrograms(programs, SplitComma(prog_assign))
    /\ UNCHANGED <<kids, att, session, pc, loc, clock, history, fs, pageFiles>>

\* what the admin may type into "New program"
ProgramNames == {<<>>, <<" ">>, <<"x">>, <<" ", "Y", " ">>, <<"E">>, <<"e">>, <<"N", "A">>}

\* page_programs: "Add program" is pressed
AddProgram(s) ==
    /\ pc[s] = "idle"
    /\ user[s] # NoUser
    /\ IsAdmin(user[s])
    /\ ret.n < MaxAdds
    /\ \E new \in ProgramNames, ok \in BOOLEAN :
         LET answer == [op |-> "add_program", n |-> ret.n + 1, name |-> "", arg |-> new,
                        ok |-> TRUE, msg |-> "Added"]
         IN  IF StripStr(new) = <<>>
             THEN /\ ret' = [answer EXCEPT !.ok = FALSE, !.msg = "Enter program name."]
                  /\ UNCHANGED programs
             ELSE IF ~ok /\ add_program_if_missing(programs, StripStr(new)) # programs
             THEN /\ ret' = [answer EXCEPT !.ok = FALSE, !.msg = "OSError"]
                  /\ UNCHANGED programs
             ELSE /\ ret' = answer
                  /\ programs' = add_program_if_missing(programs, StripStr(new))
    /\ UNCHANGED <<users, kids, att, session, pc, loc, clock, history, fs, pageFiles>>

\* what "New password" may hold
NewPasswords == {"pw", ""}

\* users.loc[users["username"] == me["username"], "password"] = newp
SetPassword(usersT, username, newp) ==
    [i \in 1..Len(usersT) |->
        IF usersT[i].username = username
        THEN [usersT[i] EXCEPT !.password = newp]
        ELSE usersT[i]]

\* the Account tab: users.csv is loaded and the signed-in user's row taken;
\* without such a row iloc[0] raises and the run ends
AccountOpen(s) ==
    /\ pc[s] = "idle"
    /\ user[s] # NoUser
    /\ user[s].username \in Range(Usernames(users))
    /\ loc' = [loc EXCEPT ![s] = [NoLoc EXCEPT !.users = users]]
    /\ pc' = [pc EXCEPT ![s] = "account"]
    /\ UNCHANGED <<pageFiles, ret, fs, tables, session, clock, history>>

\* the run ends with the form on screen and nothing submitted
AccountShown(s) ==
    /\ pc[s] = "account"
    /\ pc' = [pc EXCEPT ![s] = "idle"]
    /\ loc' = [loc EXCEPT ![s] = NoLoc]
    /\ UNCHANGED <<pageFiles, ret, fs, tables, session, clock, history>>

\* the Account tab: "Change password" is submitted
ChangePassword(s) ==
    /\ pc[s] = "account"
    /\ ret.n < MaxChanges
    /\ \E old \in Passwords, newp \in NewPasswords, ok \in BOOLEAN :
         LET Mine(r) == r.username = user[s].username
             me == SelectSeq(loc[s].users, Mine)[1]
             answer == [op |-> "change_password", n |-> ret.n + 1, name |-> me.username,
                        arg |-> <<old, newp>>,
                        ok |-> TRUE, msg |-> "Password changed. Please log out and log in again."]
         IN  IF ~check_password(old, me.password)
             THEN /\ ret' = [answer EXCEPT !.ok = FALSE, !.msg = "Old password incorrect."]
                  /\ UNCHANGED users
             ELSE IF ~ok
             THEN /\ ret' = [answer EXCEPT !.ok = FALSE, !.msg = "OSError"]
                  /\ UNCHANGED users
             ELSE /\ ret' = answer
                  /\ users' = SetPassword(loc[s].users, me.username, newp)
    /\ pc' = [pc EXCEPT ![s] = "idle"]
    /\ loc' = [loc EXCEPT ![s] = NoLoc]
    /\ UNCHANGED <<kids, programs, att, session, clock, history, fs, pageFiles>>

\* app_pages/2_Attendance.py attendance_page: "Submit Attendance"
AppPagesSubmit(s) ==
    /\ pc[s] = "idle"
    /\ user[s] # NoUser
    /\ pageFiles.app_kids # <<>>
    /\ Len(pageFiles.app_att) < MaxRows
    /\ LET listed == AppPagesListed(pageFiles.app_kids, user[s])
           names == {listed[i].Name : i \in 1..Len(listed)}
       IN  \E today \in Todays(pageFiles.app_att), present_kids \in SUBSET names,
              ok \in BOOLEAN :
             pageFiles' =
                IF present_kids = {} \/ ~ok
                THEN pageFiles
                ELSE [pageFiles EXCEPT !.app_att =
                         AppPagesRecords(@, listed, today, present_kids, user[s].username)]
    /\ UNCHANGED <<tables, session, pc, loc, clock, history, ret, fs>>

\* pages/2_Attendance.py run: "Save Attendance"; a leader's run ends at
\* user["program"], a key the session user does not have
PagesSave(s) ==
    /\ pc[s] = "idle"
    /\ user[s] # NoUser
    /\ user[s].role # "leader"
    /\ pageFiles.pages_kids # <<>>
    /\ Len(pageFiles.pages_att) < MaxRows
    /\ LET kids_df == pageFiles.pages_kids
           names == {kids_df[i].Name : i \in 1..Len(kids_df)}
       IN  \E today \in Todays(pageFiles.pages_att), present \in SUBSET names,
              ok \in BOOLEAN :
             pageFiles' =
                IF ~ok
                THEN pageFiles
                ELSE [pageFiles EXCEPT !.pages_att =
                         save_attendance(@, AttendanceData(kids_df, today, present))]
    /\ UNCHANGED <<tables, session, pc, loc, clock, history, ret, fs>>

\* app_pages/1_Kids.py run: the add-kid form is submitted
AppPagesAddKid(s) ==
    /\ pc[s] = "idle"
    /\ user[s] # NoUser
    /\ ret.n < MaxKidAdds
    /\ \E kid_name \in KidNames, program \in AppPagesPrograms, ok \in BOOLEAN :
         LET r == AppPagesAdd(pageFiles.app_kids, user[s], kid_name, program)
         IN  /\ pageFiles' = IF r.ok /\ ok THEN [pageFiles EXCEPT !.app_kids = r.kids]
                             ELSE pageFiles
             /\ ret' = [op |-> "add_kid", n |-> ret.n + 1, name |-> "app_pages",
                        arg |-> <<kid_name, program>>, ok |-> r.ok /\ ok,
                        msg |-> IF r.ok /\ ~ok THEN "OSError" ELSE r.msg]
    /\ UNCHANGED <<tables, session, pc, loc, clock, history, fs>>

\* pages/1_Kids.py page_kids: the admin's add-kid form is submitted;
\* DataFrame.append exists before pandas 2.0 and raises AttributeError since
PagesAddKid(s) ==
    /\ pc[s] = "idle"
    /\ user[s] # NoUser
    /\ user[s].role = "admin"
    /\ ret.n < MaxKidAdds
    /\ \E prog_filter \in PagesFilters(pageFiles.pages_kids, user[s]),
          name \in KidNames, program \in PagesPrograms,
          outcome \in {"ok", "AttributeError", "OSError"} :
         /\ pageFiles' =
               IF outcome = "ok"
               THEN [pageFiles EXCEPT !.pages_kids =
                        PagesAdd(@, user[s], prog_filter, name, program)]
               ELSE pageFiles
         /\ ret' = [op |-> "add_kid", n |-> ret.n + 1, name |-> "pages",
                    arg |-> <<name, program>>, ok |-> outcome = "ok",
                    msg |-> IF outcome = "ok" THEN "Kid added successfully!" ELSE outcome]
    /\ UNCHANGED <<tables, session, pc, loc, clock, history, fs>>

\* app_pages/4_Admin.py run: the add-user form is submitted
AppPagesAddUser(s) ==
    /\ pc[s] = "idle"
    /\ ret.n < MaxUserAdds
    /\ \E username \in AddUsernames, full_name \in FullNames, role \in AppPagesRoles,
          ok \in BOOLEAN :
         LET r == AppPagesAddUserRun(pageFiles.app_users, username, full_name, role, "Teens")
         IN  /\ pageFiles' = IF r.ok /\ ok THEN [pageFiles EXCEPT !.app_users = r.users]
                             ELSE pageFiles
             /\ ret' = [op |-> "add_user", n |-> ret.n + 1, name |-> "app_pages",
                        arg |-> <<username, full_name, role>>, ok |-> r.ok /\ ok,
                        msg |-> IF r.ok /\ ~ok THEN "OSError" ELSE r.msg]
    /\ UNCHANGED <<tables, session, pc, loc, clock, history, fs>>

\* pages/4_Admin.py run, tab "Manage Users": "Add User" is pressed by an admin
PagesAddUser(s) ==
    /\ pc[s] = "idle"
    /\ user[s] # NoUser
    /\ user[s].role = "admin"
    /\ ret.n < MaxUserAdds
    /\ \E username \in PagesUsernames, password \in PagesPasswords, role \in PagesRoles,
          program \in PagesUserPrograms, ok \in BOOLEAN :
         LET r == PagesAddUserRun(pageFiles.data_users, username, password, role, program)
         IN  /\ pageFiles' = IF r.ok /\ ok THEN [pageFiles EXCEPT !.data_users = r.users]
                             ELSE pageFiles
             /\ ret' = [op |-> "add_user", n |-> ret.n + 1, name |-> "pages",
                        arg |-> <<username, password, role, program>>, ok |-> r.ok /\ ok,
                        msg |-> IF r.ok /\ ~ok THEN "OSError" ELSE r.msg]
    /\ UNCHANGED <<tables, session, pc, loc, clock, history, fs>>

\* utils/auth.py login_user up to its loop: load_users is called
AuthLoad ==
    /\ pageFiles.data_users # AuthStored(pageFiles.data_users)
    /\ pageFiles' = [pageFiles EXCEPT !.data_users = AuthStored(@)]
    /\ UNCHANGED <<tables, session, pc, loc, clock, history, ret, fs>>

\* utils/auth.py change_password(username, new_password) is called
AuthChangePassword ==
    /\ ret.n < MaxAuthChanges
    /\ \E username \in AuthUsernames, new_password \in AuthPasswords :
         LET r == change_password(pageFiles.data_users, username, new_password)
         IN  /\ pageFiles' = [pageFiles EXCEPT !.data_users = r.users]
             /\ ret' = [op |-> "auth_change_password", n |-> ret.n + 1, name |-> username,
                        arg |-> <<new_password>>, ok |-> r.changed, msg |-> ""]
    /\ UNCHANGED <<tables, session, pc, loc, clock, history, fs>>

\* atomic_save_csv(path, df) is called
SaveBegin ==
    /\ fs.pc = "idle"
    /\ \E df \in FileTables :
         fs' = [NoCall EXCEPT !.target = fs.target, !.pc = "create", !.df = df,
                              !.before = fs.target]
    /\ UNCHANGED <<tables, session, pc, loc, clock, history, ret, pageFiles>>

\* tempfile.NamedTemporaryFile(delete=False, dir=path.parent), then tmp.close()
CreateTmp ==
    /\ fs.pc = "create"
    /\ \/ fs' = [fs EXCEPT !.tmp = [exists |-> TRUE, lines |-> <<>>], !.pc = "write"]
       \/ fs' = [fs EXCEPT !.raised = TRUE, !.pc = "done"]
    /\ UNCHANGED <<tables, session, pc, loc, clock, history, ret, pageFiles>>

\* df.to_csv(tmp.name): all the lines are written, or the write stops early
WriteTmp ==
    /\ fs.pc = "write"
    /\ \/ fs' = [fs EXCEPT !.tmp.lines = fs.df, !.pc = "move"]
       \/ \E n \in 0..(Len(fs.df) - 1) :
            fs' = [fs EXCEPT !.tmp.lines = Prefix(fs.df, n), !.raised = TRUE,
                             !.pc = "finally"]
    /\ UNCHANGED <<tables, session, pc, loc, clock, history, ret, pageFiles>>

\* shutil.move(tmp.name, path): os.rename puts the file in place in one step;
\* when os.rename raises OSError, shutil.move copies the file over the target
\* instead, unless the target cannot be opened either
Move ==
    /\ fs.pc = "move"
    /\ \/ fs' = [fs EXCEPT !.target = fs.tmp.lines, !.tmp = NoFile, !.pc = "finally"]
       \/ fs' = [fs EXCEPT !.target = <<>>, !.pc = "copy"]
       \/ fs' = [fs EXCEPT !.raised = TRUE, !.pc = "finally"]
    /\ UNCHANGED <<tables, session, pc, loc, clock, history, ret, pageFiles>>

\* the copy of shutil.move: the next line reaches the target, or the copy
\* stops; after the last line the temp file is unlinked
Copy ==
    /\ fs.pc = "copy"
    /\ IF Len(fs.target) < Len(fs.tmp.lines)
       THEN \/ fs' = [fs EXCEPT !.target = Append(@, fs.tmp.lines[Len(fs.target) + 1])]
            \/ fs' = [fs EXCEPT !.raised = TRUE, !.pc = "finally"]
       ELSE fs' = [fs EXCEPT !.tmp = NoFile, !.pc = "finally"]
    /\ UNCHANGED <<tables, session, pc, loc, clock, history, ret, pageFiles>>

\* finally: a temp file still there is removed, or os.remove fails and is ignored
Finally ==
    /\ fs.pc = "finally"
    /\ \/ fs' = [fs EXCEPT !.tmp = NoFile, !.pc = "done"]
       \/ fs.tmp.exists /\ fs' = [fs EXCEPT !.pc = "done"]
    /\ UNCHANGED <<tables, session, pc, loc, clock, history, ret, pageFiles>>

\* the call returns after st.cache_data.clear(), or the exception leaves it
Return ==
    /\ fs.pc = "done"
    /\ fs' = [fs EXCEPT !.pc = "idle", !.done = IF fs.raised THEN "raised" ELSE "returned"]
    /\ UNCHANGED <<tables, session, pc, loc, clock, history, ret, pageFiles>>

\* pd.read_csv(path) in a script run of another session
ReadFile ==
    /\ fs.seen # fs.target
    /\ fs' = [fs EXCEPT !.seen = fs.target]
    /\ UNCHANGED <<tables, session, pc, loc, clock, history, ret, pageFiles>>

\* the runs of page_attendance
AttendanceStep(s) ==
    \/ AttendanceOpen(s)
    \/ AttendanceShown(s)
    \/ AttendanceSave(s)

\* the delete protocol of page_kids
DeleteStep(s) ==
    \/ ClickDelete(s)
    \/ CancelDelete(s)
    \/ DeleteLoadKids(s)
    \/ DeleteWriteKids(s)
    \/ DeleteLoadAtt(s)
    \/ DeleteWriteAtt(s)

\* the Excel import of page_kids
ImportStep(s) ==
    \/ ImportLoad(s)
    \/ ImportWrite(s)

\* the Account tab
AccountStep(s) ==
    \/ AccountOpen(s)
    \/ AccountShown(s)
    \/ ChangePassword(s)

\* one browser session signs in and out, marks attendance and deletes kids;
\* every run finishes before the next begins
Next ==
    \/ Login("s1")
    \/ Logout("s1")
    \/ AttendanceStep("s1")
    \/ DeleteStep("s1")

Spec == Init /\ [][Next]_vars

\* two browser sessions, leader1 and the admin, whose runs interleave at every
\* file read and write
InitConc ==
    /\ InitTables
    /\ InitRuns
    /\ user = [s \in Sessions |->
                 IF s = "s1" THEN attempt_login(InitUsers, "leader1", "123", "leader")
                 ELSE attempt_login(InitUsers, "admin", "123", "admin")]

NextConc == \E s \in Sessions : AttendanceStep(s)

SpecConc == InitConc /\ [][NextConc]_vars

\* leader1 marks attendance in one session while the admin deletes and imports
\* kids in the other
NextRace ==
    \/ AttendanceStep("s1")
    \/ DeleteStep("s2")
    \/ ImportStep("s2")

SpecRace == InitConc /\ [][NextRace]_vars

\* one browser session browses the kids and their profiles while kids are
\* imported and deleted
NextPages ==
    \/ Login("s1")
    \/ Logout("s1")
    \/ ClickViewProfile("s1")
    \/ DeleteStep("s1")
    \/ ImportStep("s1")

SpecPages == Init /\ [][NextPages]_vars

\* an admin's session creates users, signs out and signs in again
NextUsers ==
    \/ Login("s1")
    \/ Logout("s1")
    \/ CreateUser("s1")

SpecUsers == Init /\ [][NextUsers]_vars

\* an admin session working on the Programs page
NextPrograms ==
    \/ Login("s1")
    \/ Logout("s1")
    \/ AddProgram("s1")

SpecPrograms == Init /\ [][NextPrograms]_vars

\* one session on the Account tab while an admin creates users in another
NextAccounts ==
    \/ Login("s1")
    \/ Logout("s1")
    \/ AccountStep("s1")
    \/ Login("s2")
    \/ Logout("s2")
    \/ CreateUser("s2")

SpecAccounts == Init /\ [][NextAccounts]_vars

\* one session on the attendance pages of the page variants
NextVariants ==
    \/ Login("s1")
    \/ Logout("s1")
    \/ AppPagesSubmit("s1")
    \/ PagesSave("s1")

SpecVariants == Init /\ [][NextVariants]_vars

\* one session on the kids pages of the page variants
NextKids ==
    \/ Login("s1")
    \/ Logout("s1")
    \/ AppPagesAddKid("s1")
    \/ PagesAddKid("s1")

SpecKids == Init /\ [][NextKids]_vars

\* one session on the admin pages of the page variants
NextAdmin ==
    \/ Login("s1")
    \/ Logout("s1")
    \/ AppPagesAddUser("s1")
    \/ PagesAddUser("s1")

SpecAdmin == Init /\ [][NextAdmin]_vars

\* utils/auth.py is called on a data/users.csv that is missing or was
\* written by pages/4_Admin.py
InitAuth ==
    /\ users = InitUsers
    /\ kids = InitKids
    /\ programs = <<ProgX, ProgY>>
    /\ att = <<>>
    /\ fs = [NoCall EXCEPT !.target = <<"header">>, !.df = <<"header">>,
                           !.before = <<"header">>]
    /\ \E usersT \in AuthFiles : pageFiles = [InitPageFiles EXCEPT !.data_users = usersT]
    /\ InitRuns
    /\ user = [s \in Sessions |-> NoUser]

NextAuth ==
    \/ AuthLoad
    \/ AuthChangePassword

SpecAuth == InitAuth /\ [][NextAuth]_vars

\* one session moving between login, the tabs and logout
NextRouting ==
    \/ Login("s1")
    \/ Logout("s1")
    \/ OpenTab("s1")
    \/ ClickViewProfile("s1")

SpecRouting == Init /\ [][NextRouting]_vars

\* one admin or leader session on the Account tab, with users created by
\* the same session when it is an admin's
NextPasswords ==
    \/ Login("s1")
    \/ Logout("s1")
    \/ CreateUser("s1")
    \/ AccountStep("s1")

SpecPasswords == Init /\ [][NextPasswords]_vars

\* the starter sheet: two rows with blank Student IDs and two children of one
\* name in one project
StarterSheet ==
    << [sid |-> "", first |-> <<"K", "o", "f", "i">>, last |-> <<"K">>,
        program |-> <<"E">>, location |-> <<>>],
       [sid |-> "", first |-> <<"Y", "a", "a">>, last |-> <<"K">>,
        program |-> <<"E">>, location |-> <<>>],
       [sid |-> "S1", first |-> <<"A", "m", "a">>, last |-> <<"N">>,
        program |-> <<"E">>, location |-> <<>>],
       [sid |-> "S2", first |-> <<"A", "m", "a">>, last |-> <<"N">>,
        program |-> <<"E">>, location |-> <<>>] >>

\* the ids the starter import gives the rows from position n on; iterrows
\* counts the rows from 0
RECURSIVE StarterIds(_, _, _)
StarterIds(sheet, n, used_ids) ==
    IF n > Len(sheet) THEN <<>>
    ELSE LET i == n - 1
             sid0 == IF sheet[n].sid = "" THEN GenId(i + 1) ELSE sheet[n].sid
             sid == IF sid0 \in used_ids THEN sid0 \o "_" \o ToString(i) ELSE sid0
         IN  <<sid>> \o StarterIds(sheet, n + 1, used_ids \cup {sid})

\* the rows init_files_and_starter writes to an empty kids.csv
StarterKids(sheet) ==
    LET ids == StarterIds(sheet, 1, {})
    IN  [n \in 1..Len(sheet) |->
            [id |-> ids[n],
             name |-> StripStr(StripStr(sheet[n].first) \o <<" ">> \o StripStr(sheet[n].last)),
             program |-> StripStr(sheet[n].program),
             location |-> StripStr(sheet[n].location)]]

\* the programs the starter import registers, in the order of the rows
StarterPrograms(rows) ==
    AddPrograms(<<>>, [n \in 1..Len(rows) |-> rows[n].program])

\* the files init_files_and_starter leaves behind when it finds the starter sheet
InitImported ==
    /\ users = InitUsers
    /\ kids = StarterKids(StarterSheet)
    /\ programs = StarterPrograms(StarterKids(StarterSheet))
    /\ att = <<>>
    /\ fs = [NoCall EXCEPT !.target = <<"header">>, !.df = <<"header">>,
                           !.before = <<"header">>]
    /\ pageFiles = InitPageFiles
    /\ InitRuns
    /\ user = [s \in Sessions |-> NoUser]

\* one browser session imports sheets and deletes kids after the starter import
NextImport ==
    \/ Login("s1")
    \/ Logout("s1")
    \/ ClickViewProfile("s1")
    \/ DeleteStep("s1")
    \/ ImportStep("s1")

SpecImport == InitImported /\ [][NextImport]_vars

\* atomic_save_csv is called again and again on one file while another
\* session reads it
NextSave ==
    \/ SaveBegin
    \/ CreateTmp
    \/ WriteTmp
    \/ Move
    \/ Copy
    \/ Finally
    \/ Return
    \/ ReadFile

SpecSave == Init /\ [][NextSave]_vars

(* ------------------------------ properties ---------------------------- *)
\* the step is a "Save attendance" whose write reached attendance.csv
SaveCommitted ==
    /\ nOps'.save = nOps.save + 1
    /\ lastWrite'.kind = "save"
    /\ lastWrite'.ok

\* the last write was a "Save attendance" that reached attendance.csv
LastIsSave == lastWrite.kind = "save" /\ lastWrite.ok

\* C1: a save for date D and scope S leaves every attendance record whose
\* kid_id is outside S exactly as it was, records of date D included
C1_ScopeIsolation ==
    [][SaveCommitted =>
          LET Outside(r) == r.kid_id \notin saved'[lastWrite'.sess].ids
          IN  SelectSeq(att', Outside) = SelectSeq(att, Outside)]_vars

\* two submissions touch different dates or disjoint sets of kids
Disjoint(a, b) == a.date # b.date \/ a.ids \cap b.ids = {}

\* C2: when two sessions have saved for different dates or for disjoint sets
\* of kids, the attendance store holds the rows of both saves, whatever the
\* interleaving of their loads and writes
C2_ConcurrentSavesKept ==
    \A s, t \in Sessions :
        (s # t /\ saved[s] # NoSave /\ saved[t] # NoSave /\ Disjoint(saved[s], saved[t]))
            => (saved[s].rows \cup saved[t].rows) \subseteq Range(att)

\* C3: the attendance store never holds two records with the same date and
\* the same kid_id
C3_AtMostOneRecord ==
    \A i, j \in 1..Len(att) :
        (att[i].date = att[j].date /\ att[i].kid_id = att[j].kid_id) => i = j

\* a date is saved again over its records after a kid was deleted
C3_Witness ==
    /\ LastIsSave
    /\ lastWrite.remark
    /\ Len(kids) < Len(InitKids)
    /\ Len(att) >= 2

\* C4: submitting the same date, scope, checkboxes and notes twice in a row
\* leaves the same records, timestamps aside, as submitting once: none is
\* duplicated and none outside the save changes
C4_IdempotentSave ==
    [][(SaveCommitted /\ lastWrite'.repeat) => ProjSeq(att') = ProjSeq(att)]_vars

\* the same submission has just been saved a second time
C4_Witness == LastIsSave /\ lastWrite.repeat /\ att # <<>>

\* C5: after a date is saved again for the same scope with another mapping,
\* the store holds for the marked kids exactly the records of the new mapping,
\* and a kid of the old mapping that is not in the new one has no record for
\* the date
C5_RemarkOverwrite ==
    (LastIsSave /\ lastWrite.remark) =>
        LET sv == saved[lastWrite.sess]
            mine == {i \in 1..Len(att) : att[i].date = sv.date /\ att[i].kid_id \in sv.ids}
        IN  /\ {<<att[i].kid_id, att[i].present = "1", att[i].note>> : i \in mine} = sv.marks
            /\ Cardinality(mine) = Cardinality(sv.ids)
            /\ \A i \in mine : att[i].marked_by = sv.by.username
            /\ \A i \in 1..Len(att) :
                  att[i].date = sv.date => att[i].kid_id \notin lastWrite.gone

\* a date was saved again with other values after a kid of the first save
\* left the scope
C5_Witness ==
    /\ LastIsSave
    /\ lastWrite.remark
    /\ lastWrite.gone # {}
    /\ saved[lastWrite.sess].ids # {}

\* C6: no save by a leader leaves a record for a kid whose program is not
\* among the leader's assigned programs
C6_ScopeRejection ==
    (LastIsSave /\ ~IsAdmin(lastWrite.by)) =>
        \A r \in saved[lastWrite.sess].rows :
            \A k \in Range(kids) :
                k.id = r.kid_id => k.program \in Range(lastWrite.by.programs)

\* the ids of the kids whose program is assigned to u
AllowedIds(kidsT, u) == {k.id : k \in {r \in Range(kidsT) : r.program \in Range(u.programs)}}

\* C7: a leader is only ever shown kids of the assigned programs, on the Kids
\* page, the Attendance form and the Profile page, where any other kid yields
\* "Access denied."; an admin is shown every kid; whatever the filters
C7_RoleScopedVisibility ==
    \A s \in Sessions :
        user[s] # NoUser =>
            LET u == user[s]
                profile == ProfilePage(kids, u, selected_kid[s])
                exists == selected_kid[s] \in Range(Ids(kids))
            IN  IF IsAdmin(u)
                THEN /\ Range(KidsPage(kids, u, NoChoice, NoChoice, <<>>).ids) = Range(Ids(kids))
                     /\ Range(AttendancePage(kids, u, NoChoice).ids) = Range(Ids(kids))
                     /\ exists => profile.ids = <<selected_kid[s]>>
                ELSE /\ \A cp \in KidsProgChoices(programs, u), cl \in KidsLocChoices(kids),
                           q \in Searches :
                           Range(KidsPage(kids, u, cp, cl, q).ids) \subseteq AllowedIds(kids, u)
                     /\ \A c \in AttChoices(kids, u) :
                           Range(AttendancePage(kids, u, c).ids) \subseteq AllowedIds(kids, u)
                     /\ Range(profile.ids) \subseteq AllowedIds(kids, u)
                     /\ (exists /\ selected_kid[s] \notin AllowedIds(kids, u))
                           => profile.msg = "Access denied."

\* a signed-in leader without assigned programs
EmptyLeader(u) == u # NoUser /\ ~IsAdmin(u) /\ u.programs = <<>>

\* C8: a leader without assigned programs is shown a message and no kid on
\* the Kids and Attendance pages, never reaches the attendance form, and no
\* write to a table is made in that leader's name
C8_EmptyLeaderScope ==
    /\ \A s \in Sessions :
          EmptyLeader(user[s]) =>
              /\ \A cp \in KidsProgChoices(programs, user[s]), cl \in KidsLocChoices(kids),
                    q \in Searches :
                    KidsPage(kids, user[s], cp, cl, q) =
                        [msg |-> "No programs assigned. Contact admin.", ids |-> <<>>]
              /\ \A c \in AttChoices(kids, user[s]) :
                    /\ AttendancePage(kids, user[s], c).ids = <<>>
                    /\ AttendancePage(kids, user[s], c).msg
                          \in {"No kids in database.", "No programs assigned."}
              /\ pc[s] = "idle"
    /\ ~EmptyLeader(lastWrite.by)

\* a leader without programs is signed in to a session that still holds the
\* pending delete an admin left behind, with attendance on file
C8_Witness ==
    \E s \in Sessions :
        /\ EmptyLeader(user[s])
        /\ pending_delete[s] # NoPending
        /\ att # <<>>

\* C9: whatever step of atomic_save_csv fails, the target file keeps its
\* previous contents; a reader sees the previous or the new contents, never
\* a part or a mix; a call that returns leaves the new table in the file
C9_AllOrNothing ==
    /\ fs.seen \in {<<"nothing">>, fs.before, fs.df}
    /\ (fs.pc = "idle" /\ fs.done = "raised") => fs.target = fs.before
    /\ (fs.pc = "idle" /\ fs.done = "returned") => fs.target = fs.df

\* C10: create_user with a username the table holds answers
\* (False, "Username exists") and leaves the table as it was, so the
\* usernames of the table stay unique
C10_DuplicateUserRejected ==
    [][(ret'.n = ret.n + 1 /\ ret'.op = "create_user") =>
          /\ ret'.name \in Range(Usernames(users)) =>
                (~ret'.ok /\ ret'.msg = "Username exists" /\ users' = users)
          /\ \A i, j \in 1..Len(users') :
                users'[i].username = users'[j].username => i = j]_vars

\* what two registry entries are compared by: trimmed, case ignored
ProgramKey(q) == LowerStr(StripStr(q))

\* C11: add_program_if_missing with a name that equals a registry entry after
\* trimming and ignoring case leaves the registry as it was, a blank name is
\* ignored, a new name is appended once, and no two entries of the registry
\* are equal ignoring case and surrounding blanks
C11_DuplicateProgramRejected ==
    [][(ret'.n = ret.n + 1 /\ ret'.op = "add_program" /\ ret'.msg # "OSError") =>
          LET name == StripStr(ret'.arg)
              existing == {ProgramKey(q) : q \in Range(programs)}
          IN  /\ (name = <<>> \/ ProgramKey(name) \in existing) => programs' = programs
              /\ (name # <<>> /\ ProgramKey(name) \notin existing) =>
                    programs' = Append(programs, name)
              /\ \A i, j \in 1..Len(programs') :
                    ProgramKey(programs'[i]) = ProgramKey(programs'[j]) => i = j]_vars

\* C12: right after a user saves a date over a displayed scope, the store
\* holds for every kid of the scope exactly one record for the date, with
\* present "1" if the box was checked and "0" if not, the entered note, the
\* kid's program as the kids table has it, the user's username as marked_by,
\* and one timestamp for all records of the save
C12_RecordContent ==
    LastIsSave =>
        LET sv == saved[lastWrite.sess]
            Mine(k) == {i \in 1..Len(att) : att[i].date = sv.date /\ att[i].kid_id = k}
        IN  \A k \in sv.ids :
              /\ Cardinality(Mine(k)) = 1
              /\ k \in Range(Ids(kids))
              /\ \A i \in Mine(k) :
                    /\ att[i].present \in {"0", "1"}
                    /\ <<k, att[i].present = "1", att[i].note>> \in sv.marks
                    /\ att[i].program = KidProgram(kids, k)
                    /\ att[i].marked_by = sv.by.username
                    /\ att[i].timestamp = clock

\* a save over two kids or more has left an unchecked kid with a note and a
\* checked kid on file
C12_Witness ==
    /\ LastIsSave
    /\ Cardinality(saved[lastWrite.sess].ids) >= 2
    /\ \E i, j \in 1..Len(att) :
          /\ att[i].date = saved[lastWrite.sess].date
          /\ att[j].date = saved[lastWrite.sess].date
          /\ att[i].present = "0" /\ att[i].note = "late"
          /\ att[j].present = "1"

\* C14: page_profiles answers "Kid not found." exactly when the kids table
\* holds no kid with the selected id; when it holds one and the user may see
\* it, the profile is displayed and the message is not
C14_NotFoundOnProfiles ==
    \A s \in Sessions :
        (user[s] # NoUser /\ selected_kid[s] # NoKid) =>
            LET u == user[s]
                sel == selected_kid[s]
                profile == ProfilePage(kids, u, sel)
                exists == sel \in Range(Ids(kids))
                allowed == IsAdmin(u) \/ sel \in AllowedIds(kids, u)
            IN  /\ (profile.msg = "Kid not found.") <=> ~exists
                /\ (exists /\ allowed) => (profile.msg = "" /\ profile.ids = <<sel>>)

\* the programs users.csv assigns to a username: those of the row
\* attempt_login would take, none when there is no such row
StoredPrograms(usersT, username) ==
    LET Named(r) == r.username = username
        row == SelectSeq(usersT, Named)
    IN  IF row = <<>> THEN {} ELSE Range(ParsePrograms(row[1].programs))

\* C13: on every page run the programs and the kids a signed-in leader may
\* see or mark are the programs users.csv assigns to the leader at that
\* moment and the kids of kids.csv in those programs, never what an earlier
\* request (the login) left in the session
C13_ScopeRecomputed ==
    \A s \in Sessions :
        (user[s] # NoUser /\ ~IsAdmin(user[s]) /\ pc[s] = "idle") =>
            LET u == user[s]
                stored == StoredPrograms(users, u.username)
                mine == {k.id : k \in {r \in Range(kids) : r.program \in stored}}
            IN  /\ KidsProgChoices(programs, u) \ {NoChoice} = stored
                /\ Range(KidsPage(kids, u, NoChoice, NoChoice, <<>>).ids) = mine
                /\ \A c \in AttChoices(kids, u) :
                      Range(AttendancePage(kids, u, c).ids) \subseteq mine

\* no two rows of a page variant's attendance file share date and kid
OnePerDateAndKid(attT) ==
    \A i, j \in 1..Len(attT) :
        (attT[i].Date = attT[j].Date /\ attT[i].Kid = attT[j].Kid) => i = j

\* C15: after any sequence of submissions through app_pages attendance_page
\* or pages run/save_attendance, twice on the same day included, the
\* attendance file holds at most one record per date and kid
C15_VariantsAtMostOneRecord ==
    /\ OnePerDateAndKid(pageFiles.app_att)
    /\ OnePerDateAndKid(pageFiles.pages_att)

\* C16: whatever the sequence of logins, logouts, "Delete", "Yes, delete" and
\* "Cancel" in a browser session, a row leaves the kids table only in a step
\* of a session whose signed-in user has role admin
C16_OnlyAdminDeletes ==
    [][(Range(kids) \ Range(kids') # {}) =>
          \E s \in Sessions :
              /\ pc[s] = "del_kids"
              /\ pc'[s] # "del_kids"
              /\ user[s] # NoUser
              /\ IsAdmin(user[s])]_vars

\* C17: after any sequence of attendance saves and kid deletions, a failed
\* write or another session's step between the two writes of a deletion
\* included, every attendance record's kid_id is the id of a kid of the kids
\* table whenever no script run is under way
C17_ReferentialIntegrity ==
    (\A s \in Sessions : pc[s] = "idle") =>
        \A i \in 1..Len(att) : att[i].kid_id \in Range(Ids(kids))

DeleteProtocol ==
    LET removed == Range(kids) \ Range(kids')
    IN  /\ removed # {} =>
              \E s \in Sessions :
                  /\ pc[s] = "del_kids"
                  /\ pending_delete[s].type = "kid"
                  /\ \A k \in removed : k.id = pending_delete[s].id
                  /\ Cardinality(removed) = 1
        /\ \A s \in Sessions :
              /\ pending_delete'[s] \notin {pending_delete[s], NoPending} =>
                    /\ nOps'.del = nOps.del + 1
                    /\ pending_delete'[s].id \in Range(Ids(kids))
              /\ (pc[s] = "idle" /\ pending_delete[s] # NoPending
                               /\ pending_delete'[s] = NoPending) =>
                    (kids' = kids /\ att' = att)

\* C19 as stated: the two-step delete protocol, and after either answer,
\* "Yes, delete" or "Cancel", pending_delete is None
C19_TwoStepDelete_AsStated ==
    [][/\ DeleteProtocol
       /\ \A s \in Sessions :
             (pc[s] \in {"del_kids", "del_att_w"} /\ pc'[s] = "idle") =>
                 pending_delete'[s] = NoPending]_vars

\* C19, amended: the two-step delete protocol; pending_delete is None after
\* "Cancel" and after a "Yes, delete" whose two writes succeeded, and still
\* names the kid after a "Yes, delete" that ended in a failed write
C19_TwoStepDelete ==
    [][/\ DeleteProtocol
       /\ \A s \in Sessions :
             /\ (pc[s] = "del_att_w" /\ lastWrite'.ok) =>
                   pending_delete'[s] = NoPending
             /\ (pc[s] \in {"del_kids", "del_att_w"} /\ pc'[s] = "idle" /\ ~lastWrite'.ok) =>
                   pending_delete'[s] = pending_delete[s]]_vars

\* a confirmed deletion has removed one kid and cleared pending_delete
C19_Witness ==
    /\ lastWrite.kind = "del_att"
    /\ lastWrite.ok
    /\ Len(kids) = Len(InitKids) - 1
    /\ \A s \in Sessions : pending_delete[s] = NoPending /\ pc[s] = "idle"

\* C20: attempt_login returns a user exactly when the user table has a row
\* with the entered username whose role is the chosen role, case ignored,
\* and whose password is the entered one; it returns None otherwise; the
\* returned programs are the row's comma-separated programs, each trimmed,
\* the empty ones dropped
C20_LoginDecision ==
    \A username \in LoginNames, password \in Passwords, role_choice \in Roles :
        LET name == StripName(username)
            u == attempt_login(users, name, password, role_choice)
            Match(r) == /\ r.username = name
                        /\ LowerRole(r.role) = LowerRole(role_choice)
                        /\ r.password = password
            rows == SelectSeq(users, Match)
        IN  /\ u # NoUser <=> rows # <<>>
            /\ u # NoUser =>
                  /\ u.username = name
                  /\ \E i \in 1..Len(rows) : u.programs = ParsePrograms(rows[i].programs)

\* the pages a leader is never to see
AdminOnlyTabs == {"Dashboard", "Programs", "Import", "Export", "Admin Tools"}

AdminOnlyPages == {"page_dashboard", "page_programs", "page_export", "page_admin_tools"}

\* the step is a script run that put another page on screen
NewPage ==
    /\ ret'.op = "page"
    /\ (ret'.arg # ret.arg \/ ret'.msg # ret.msg)

\* C21: a script run of a session without user renders the login page only;
\* a run of a signed-in leader never renders the Dashboard, Programs, Import,
\* Export or Admin Tools page, and page_admin_tools answers a user who is no
\* admin with "Admin only."; after Logout the session's user and
\* selected_kid are None
C21_PageGating ==
    [][\A s \in Sessions :
          /\ (NewPage /\ ret'.arg[1] = s) =>
                /\ user[s] = NoUser => ret'.arg[3] = "page_login"
                /\ user[s] # NoUser => ret'.arg[3] # "page_login"
                /\ (user[s] # NoUser /\ ~IsAdmin(user[s])) =>
                      /\ ret'.arg[2] \notin AdminOnlyTabs
                      /\ ret'.arg[3] \notin AdminOnlyPages
                      /\ page_admin_tools(user[s]) = "Admin only."
          /\ (user[s] # NoUser /\ user'[s] = NoUser) =>
                selected_kid'[s] = NoKid]_vars

\* a leader with a kid selected has the Kids page on screen
C21_Witness ==
    /\ user["s1"] # NoUser
    /\ ~IsAdmin(user["s1"])
    /\ selected_kid["s1"] # NoKid
    /\ ret.op = "page"
    /\ ret.arg = <<"s1", "Kids", "page_kids">>

\* the position of the row attempt_login takes for a username
FirstRow(usersT, username) ==
    CHOOSE i \in 1..Len(usersT) :
        /\ usersT[i].username = username
        /\ \A j \in 1..(i - 1) : usersT[j].username # username

\* C22: "Change password" with an old password other than the signed-in
\* user's stored one answers "Old password incorrect." and leaves the user
\* table as it was; with the stored one, the signed-in user's password and
\* nothing else in the table becomes the new value
C22_PasswordChange ==
    [][(ret'.n = ret.n + 1 /\ ret'.op = "change_password" /\ ret'.msg # "OSError") =>
          LET old == ret'.arg[1]
              newp == ret'.arg[2]
              mine == FirstRow(users, ret'.name)
          IN  /\ old # users[mine].password =>
                    (ret'.msg = "Old password incorrect." /\ users' = users)
              /\ old = users[mine].password =>
                    /\ ret'.msg # "Old password incorrect."
                    /\ users' = [users EXCEPT ![mine].password = newp]]_vars

\* no two rows of a kids table share an id
UniqueIds(kidsT) ==
    \A i, j \in 1..Len(kidsT) : kidsT[i].id = kidsT[j].id => i = j

\* C23: no two rows of kids.csv share an id; the write of "Confirm import"
\* leaves every row that was in the file in place and unchanged, the rows it
\* adds come from the upload and match no row of the file by id or by name
\* and program, and every uploaded row with a blank Student ID carries a
\* generated id that no row of the file has
C23_ImportKeepsIds ==
    [][/\ UniqueIds(kids) /\ UniqueIds(kids')
       /\ pc["s1"] = "import_w" =>
            LET mapped == loc["s1"].mapped
                added == SubSeq(kids', Len(kids) + 1, Len(kids'))
            IN  /\ Len(kids') >= Len(kids)
                /\ SubSeq(kids', 1, Len(kids)) = kids
                /\ \A i \in 1..Len(added) :
                     /\ \E m \in 1..Len(mapped) : mapped[m].row = added[i]
                     /\ \A k \in 1..Len(kids) :
                          /\ kids[k].id # added[i].id
                          /\ <<kids[k].name, kids[k].program>> #
                                 <<added[i].name, added[i].program>>
                /\ \A m \in 1..Len(mapped) :
                     mapped[m].blank => mapped[m].row.id \notin Range(Ids(kids))]_vars

\* a table holds every row of another, in place, and one row more
OneRowAdded(before, after) ==
    /\ Len(after) = Len(before) + 1
    /\ SubSeq(after, 1, Len(before)) = before

\* C24: an accepted add-kid submission of app_pages/1_Kids.py or of
\* pages/1_Kids.py leaves every kid row of the file in the file and adds
\* exactly one row
C24_AddKidKeepsKids ==
    [][(ret'.n = ret.n + 1 /\ ret'.op = "add_kid" /\ ret'.ok) =>
          /\ ret'.name = "app_pages" =>
                OneRowAdded(pageFiles.app_kids, pageFiles'.app_kids)
          /\ ret'.name = "pages" =>
                OneRowAdded(pageFiles.pages_kids, pageFiles'.pages_kids)]_vars

\* C25: "Add User" of app_pages/4_Admin.py with a username users.csv already
\* holds answers "Username already exists." and leaves the file as it was,
\* and no two rows of users.csv share a Username
C25_UsernamesUnique ==
    [][(ret'.n = ret.n + 1 /\ ret'.op = "add_user" /\ ret'.name = "app_pages") =>
          LET stored == pageFiles.app_users
              after == pageFiles'.app_users
          IN  /\ (\E i \in 1..Len(stored) : stored[i].Username = ret'.arg[1]) =>
                    /\ ret'.msg \in {"Username already exists.", "Please provide all details."}
                    /\ after = stored
              /\ \A i, j \in 1..Len(after) :
                    after[i].Username = after[j].Username => i = j]_vars

\* C26: "Add User" of pages/4_Admin.py with a username, a password, the role
\* leader and an empty program answers "Leaders must have a program
\* assigned." and leaves data/users.csv as it was, and in every file the
\* page writes each leader row has a program and each admin row has none
C26_LeadersHaveProgram ==
    [][(ret'.n = ret.n + 1 /\ ret'.op = "add_user" /\ ret'.name = "pages") =>
          LET username == ret'.arg[1]
              password == ret'.arg[2]
              role == ret'.arg[3]
              program == ret'.arg[4]
              written == pageFiles'.data_users
          IN  /\ (username # "" /\ password # "" /\ role = "leader" /\ program = "") =>
                    /\ ret'.msg = "Leaders must have a program assigned."
                    /\ pageFiles'.data_users = pageFiles.data_users
              /\ ret'.ok =>
                    \A i \in 1..Len(written) :
                       /\ written[i].role = "leader" => written[i].program # ""
                       /\ written[i].role = "admin" => written[i].program = ""]_vars

\* C27: utils/auth.change_password returns True exactly when data/users.csv
\* (with the default rows if it was missing) holds a row with the username;
\* then the password of the first such row is the new one and every other
\* cell of the file is as before; when it returns False the file is as
\* load_users found or created it
C27_AuthChangePassword ==
    [][(ret'.n = ret.n + 1 /\ ret'.op = "auth_change_password") =>
          LET stored == AuthStored(pageFiles.data_users)
              username == ret'.name
              new_password == ret'.arg[1]
              exists == \E i \in 1..Len(stored) : stored[i].username = username
              first == CHOOSE i \in 1..Len(stored) :
                          /\ stored[i].username = username
                          /\ \A j \in 1..(i - 1) : stored[j].username # username
          IN  /\ ret'.ok <=> exists
              /\ ret'.ok =>
                    pageFiles'.data_users = [stored EXCEPT ![first].password = new_password]
              /\ ~ret'.ok => pageFiles'.data_users = stored]_vars

====
